---- MODULE Spec2Model ----
(***************************************************************************)
(* Model of egui-fontcfg (src/src/lib.rs): the font configuration editor   *)
(* FontCfgUi and its one operation, show, which renders one frame of       *)
(* controls, applies the edits of that frame to the host's font            *)
(* definitions and custom font path registry, and returns a message.       *)
(*                                                                         *)
(* One call of show is one atomic action.  Its inputs are what the Ui      *)
(* reports for each control in that frame (which buttons report clicked(), *)
(* what the text fields hold after the frame's key events) and whether the *)
(* host passed a registry (custom = Some / None).                          *)
(*                                                                         *)
(* Spec is the editor called by the host's render loop.  SpecWindow is the *)
(* editor inside FontCfgWindow, SpecLoader the host's load_custom_fonts at *)
(* startup, SpecScenario a walkthrough of show calls from empty tables.    *)
(***************************************************************************)
EXTENDS Integers, Sequences, FiniteSets, TLC

(***************************************************************************)
(* Bounds of the model.                                                    *)
(***************************************************************************)
\* Number of show calls explored from a freshly constructed editor.
MaxCalls == 2

(***************************************************************************)
(* Strings, paths, files.                                                  *)
(***************************************************************************)
\* Texts the user types into the identifier buffer or into a fallback slot.
Strings == {"", "sans"}

\* Texts the path buffer can hold.
Paths == {"", "sans.ttf", "missing.ttf"}

\* Bytes of the font the host preloaded as "sans", and of the files emoji.ttf
\* and sans.ttf.
SansBytes == <<7, 7>>
EmojiBytes == <<8>>
FileBytes == <<0, 1, 0, 0>>

\* Bytes of the files valid/path and other/path a registry can name.
ValidBytes == <<1, 2, 3>>
OtherBytes == <<4>>

\* e.to_string() of the io::Error of a failed std::fs::read.
NotFound == "No such file or directory (os error 2)"

\* std::fs::read(path): Ok(data) or Err(e).
ReadFile(path) ==
    CASE path = "sans.ttf" -> [ok |-> TRUE, data |-> FileBytes, err |-> ""]
      [] path = "emoji.ttf" -> [ok |-> TRUE, data |-> EmojiBytes, err |-> ""]
      [] path = "valid/path" -> [ok |-> TRUE, data |-> ValidBytes, err |-> ""]
      [] path = "other/path" -> [ok |-> TRUE, data |-> OtherBytes, err |-> ""]
      [] OTHER -> [ok |-> FALSE, data |-> <<>>, err |-> NotFound]

\* Option<T>: None is the empty sequence, Some(x) the one-element sequence.
None == <<>>
Some(x) == <<x>>

(***************************************************************************)
(* Maps (BTreeMap / HashMap) as functions on their key sets.               *)
(***************************************************************************)
EmptyMap == [k \in {} |-> ""]

\* map.insert(k, v): inserts or overwrites.
Insert(map, k, v) ==
    [x \in (DOMAIN map) \cup {k} |-> IF x = k THEN v ELSE map[x]]

\* The map without the keys in gone.
Without(map, gone) ==
    [x \in (DOMAIN map) \ gone |-> map[x]]

\* Family keys in the iteration order of font_defs.families (a BTreeMap keyed by
\* FontFamily: Monospace sorts before every Name(..)).
FamilyOrder == <<"Monospace", "body">>
Families == {FamilyOrder[i] : i \in 1..Len(FamilyOrder)}
Rank(family) == CHOOSE i \in 1..Len(FamilyOrder) : FamilyOrder[i] = family

VARIABLES
    name_buf,    \* FontCfgUi.name_buf
    path_buf,    \* FontCfgUi.path_buf
    err_msg,     \* FontCfgUi.err_msg
    add_new,     \* FontCfgUi.add_new
    font_data,   \* font_defs.font_data : identifier -> bytes
    families,    \* font_defs.families  : family -> sequence of identifiers
    custom,      \* the host's CustomFontPaths : identifier -> path
    ctx_fonts,   \* the font definitions last given to ui.ctx().set_fonts
    msg,         \* what the last show call returned; "Panic" if it unwound
    calls,       \* number of show calls made
    last,        \* the inputs of the last show call: [ev, supplied]
    open,        \* FontCfgWindow.open
    load,        \* the last load_custom_fonts call: [result, order, before]
    script       \* the walkthrough: [at, on], how many of its steps have been
                 \* taken and whether every step so far was one of its steps

vars == <<name_buf, path_buf, err_msg, add_new, font_data, families, custom,
          ctx_fonts, msg, calls, last, open, load, script>>

\* The program state as one record.
St == [name_buf |-> name_buf, path_buf |-> path_buf, err_msg |-> err_msg,
       add_new |-> add_new, font_data |-> font_data, families |-> families,
       custom |-> custom, ctx_fonts |-> ctx_fonts, msg |-> msg]

\* FontDefinitions as one value (what font_defs.clone() copies).
FontDefinitions(fd, fam) == [font_data |-> fd, families |-> fam]

(***************************************************************************)
(* Inputs of one show call.                                                *)
(***************************************************************************)
\* One control reported as activated.  kind names the control; key, pos and
\* text say which row it is in and, for a text field, what it holds afterwards.
Event(kind, key, pos, text) == [kind |-> kind, key |-> key, pos |-> pos, text |-> text]

HeaderPlus == Event("header_plus", "", 0, "")
NameEdit(text) == Event("name_edit", "", 0, text)
PathEdit(text) == Event("path_edit", "", 0, text)
AddNewFont == Event("add_new_font", "", 0, "")
FontMinus(name) == Event("font_minus", name, 0, "")
FamilyPlus(family) == Event("family_plus", family, 0, "")
FamilyMinus(family) == Event("family_minus", family, 0, "")
SlotEdit(family, p, text) == Event("slot_edit", family, p, text)
SlotMinus(family, p) == Event("slot_minus", family, p, "")
Apply == Event("apply", "", 0, "")
Save == Event("save", "", 0, "")

\* The controls of the add sub-form: its button and its two text fields.
FormControls(s) ==
    {AddNewFont}
    \cup {NameEdit(t) : t \in Strings \ {s.name_buf}}
    \cup {PathEdit(t) : t \in Paths \ {s.path_buf}}

\* An edit of one slot is taken by every slot of the row's family.
TextAfterAnyRow(ev, kind, key, pos, before) ==
    IF \E e \in ev : e.kind = kind /\ e.key = key
    THEN (CHOOSE e \in ev : e.kind = kind /\ e.key = key).text
    ELSE before

\* The text a field holds after the frame, given what it held before.
TextAfter(ev, kind, key, pos, before) ==
    IF \E e \in ev : e.kind = kind /\ e.key = key /\ e.pos = pos
    THEN (CHOOSE e \in ev : e.kind = kind /\ e.key = key /\ e.pos = pos).text
    ELSE before

\* The add sub-form is on screen in state s or opened by this call's header '+'.
FormShown(s, ev) == s.add_new \/ HeaderPlus \in ev

\* The identifier a successful add of this frame inserts into the font data
\* before the font rows are laid out (a set: empty if the frame adds none).
AddedFont(s, ev) ==
    IF /\ AddNewFont \in ev
       /\ FormShown(s, ev)
       /\ ReadFile(TextAfter(ev, "path_edit", "", 0, s.path_buf)).ok
    THEN {TextAfter(ev, "name_edit", "", 0, s.name_buf)}
    ELSE {}

\* The font rows of the frame: the font data as the add sub-form left it.
FontRows(s, ev) == (DOMAIN s.font_data) \cup AddedFont(s, ev)

\* The buttons of the frame that starts in state s and in which the Ui
\* reports ev: the font rows are those after the frame's add, the family and
\* slot rows those of the families as the host passed them.
Buttons(s, ev) ==
    {HeaderPlus, AddNewFont, Apply, Save}
    \cup {FontMinus(n) : n \in FontRows(s, ev)}
    \cup {FamilyPlus(f) : f \in DOMAIN s.families}
    \cup {FamilyMinus(f) : f \in DOMAIN s.families}
    \cup UNION {{SlotMinus(f, p) : p \in 1..Len(s.families[f])} : f \in DOMAIN s.families}

\* The text fields of state s, each with the texts an edit can leave in it.
TextEdits(s) ==
    {NameEdit(t) : t \in Strings \ {s.name_buf}}
    \cup {PathEdit(t) : t \in Paths \ {s.path_buf}}
    \cup UNION {UNION {{SlotEdit(f, p, t) : t \in Strings \ {s.families[f][p]}} :
                       p \in 1..Len(s.families[f])} :
                f \in DOMAIN s.families}

\* What the Ui can report in one frame: the pointer clicks at most one button,
\* and the widget with keyboard focus takes the keys: a focused button is
\* clicked by Enter or Space, a focused text field is edited.  A control of the
\* sub-form is activated only in a call that shows the sub-form, the '-' of a
\* font only in a call that lays out the font's row.
Inputs(s) ==
    LET buttons == Buttons(s, {}) \cup {FontMinus(n) : n \in Strings}
        pointer == {{}} \cup {{b} : b \in buttons}
        keyboard == {{}} \cup {{c} : c \in buttons \cup TextEdits(s)}
    IN {ev \in {p \cup k : p \in pointer, k \in keyboard} :
            /\ (ev \cap FormControls(s) # {}) => FormShown(s, ev)
            /\ \A e \in ev : e.kind = "font_minus" => e.key \in FontRows(s, ev)}

(***************************************************************************)
(* FontCfgUi::show                                                         *)
(***************************************************************************)
\* The error message is dropped at the start of every frame.
ErrClearedEachFrame(err, ev) == ""

\* The header '+' opens the sub-form and leaves the error message standing.
ErrKept(err, ev) == err

\* if ui.button("+").clicked() { self.add_new = true; self.err_msg.clear() }
HeaderClear(err, ev) == IF HeaderPlus \in ev THEN "" ELSE err

\* A failed read that closes the sub-form and drops what was typed.
ReadFailedClosing(s, form, e) ==
    [s EXCEPT !.add_new = FALSE, !.name_buf = "", !.path_buf = "",
              !.err_msg = e, !.msg = "None"]

\* Err(e) of the read: the message is stored and show returns None at once;
\* form is the sub-form's state [add_new, name_buf, path_buf] at the click.
ReadFailed(s, form, e) ==
    [s EXCEPT !.add_new = form.add_new, !.name_buf = form.name_buf,
              !.path_buf = form.path_buf, !.err_msg = e, !.msg = "None"]

\* font_data.entry(name).or_insert(data): an existing entry is kept.
InsertIfAbsent(fd, name, data) ==
    IF name \in DOMAIN fd THEN fd ELSE Insert(fd, name, data)

\* font_defs.font_data.insert(self.name_buf.clone(), data)
InsertFont(fd, name, data) == Insert(fd, name, data)

\* font_defs.font_data.retain(..): the identifiers whose '-' is clicked.
Removed(fd, ev) == {n \in DOMAIN fd : FontMinus(n) \in ev}

\* The registry is left alone when a font is removed.
CustomKept(cu, removed, supplied) == cu

\* custom.remove(name) for each removed identifier, if the registry is supplied.
CustomRemove(cu, removed, supplied) ==
    IF supplied THEN Without(cu, removed) ELSE cu

RECURSIVE RetainFrom(_, _, _, _)
\* fonts.retain_mut from position p on: each slot is edited in place, then
\* kept unless its '-' is clicked; kept slots stay in order.
RetainFrom(fonts, family, ev, p) ==
    IF p > Len(fonts) THEN <<>>
    ELSE LET font_name == TextAfter(ev, "slot_edit", family, p, fonts[p])
             retain == SlotMinus(family, p) \notin ev
         IN (IF retain THEN <<font_name>> ELSE <<>>)
            \o RetainFrom(fonts, family, ev, p + 1)

\* Removal by swap_remove: the last slot takes the place of a removed one.
RetainSwapping(fonts, family, ev) ==
    LET kept == RetainFrom(fonts, family, ev, 1)
    IN IF Len(kept) < Len(fonts) /\ Len(kept) > 1 /\ SlotMinus(family, Len(fonts)) \notin ev
       THEN <<kept[Len(kept)]>> \o SubSeq(kept, 1, Len(kept) - 1)
       ELSE kept

\* fonts.retain_mut(..) of one family row.
RetainMut(fonts, family, ev) == RetainFrom(fonts, family, ev, 1)

\* push_new_to after the family iteration: the last family, in key order,
\* whose '+' is clicked.
PushNewTo(fams, ev) ==
    LET marked == {f \in DOMAIN fams : FamilyPlus(f) \in ev}
    IN IF marked = {} THEN None
       ELSE Some(CHOOSE f \in marked : \A g \in marked : Rank(g) <= Rank(f))

\* The '-' of a family empties its list and keeps the family.
RetainFamiliesClearing(fams, ev) ==
    [f \in DOMAIN fams |->
        IF FamilyMinus(f) \in ev THEN <<>> ELSE RetainMut(fams[f], f, ev)]

\* A clicked '+' pushes its slot inside the iteration, before the deferred push.
RetainFamiliesPushing(fams, ev) ==
    [f \in {g \in DOMAIN fams : FamilyMinus(g) \notin ev} |->
        RetainMut(fams[f], f, ev)
        \o (IF FamilyPlus(f) \in ev THEN <<"">> ELSE <<>>)]

\* font_defs.families.retain(..): families whose '-' is clicked are dropped,
\* the slots of the others go through retain_mut.
RetainFamilies(fams, ev) ==
    [f \in {g \in DOMAIN fams : FamilyMinus(g) \notin ev} |->
        RetainMut(fams[f], f, ev)]

\* The new slot is put in front of the list.
PushFront(fonts) == <<"">> \o fonts

\* .push(String::new())
PushNew(fonts) == Append(fonts, "")

\* Only the font data is given to the context, the families are not.
SetFontDataOnly(ctx, ev, font_defs) ==
    IF Apply \in ev
    THEN FontDefinitions(font_defs.font_data, ctx.families)
    ELSE ctx

\* The context is also given the fonts when Save is clicked.
SetFontsOnSave(ctx, ev, font_defs) ==
    IF Apply \in ev \/ Save \in ev THEN font_defs ELSE ctx

\* if ui.button("Apply").clicked() { ui.ctx().set_fonts(font_defs.clone()) }
SetFonts(ctx, ev, font_defs) ==
    IF Apply \in ev THEN font_defs ELSE ctx

\* The message is never set.
MsgNone(ev) == "None"

\* if ui.button("Save").clicked() { msg = FontDefsUiMsg::SaveRequest }
FooterMsg(ev) ==
    IF Save \in ev THEN "SaveRequest" ELSE "None"

\* What show does after the add sub-form (the error label, the font rows, the
\* family rows, the deferred push, Apply and Save) in state s, whose editor
\* fields are already those the sub-form left.
ShowTables(s, ev, supplied) ==
    LET removed == Removed(s.font_data, ev)
        font_data2 == Without(s.font_data, removed)
        custom2 == CustomRemove(s.custom, removed, supplied)
        push_new_to == PushNewTo(s.families, ev)
        families1 == RetainFamilies(s.families, ev)
        unwrap_none == push_new_to # None /\ push_new_to[1] \notin DOMAIN families1
        families2 == IF push_new_to # None /\ ~unwrap_none
                     THEN [families1 EXCEPT ![push_new_to[1]] = PushNew(@)]
                     ELSE families1
        edited == [s EXCEPT !.font_data = font_data2, !.custom = custom2]
    IN  IF unwrap_none
        THEN \* families.get_mut(&key).unwrap() on None: the call unwinds
             [edited EXCEPT !.families = families1, !.msg = "Panic"]
        ELSE [edited EXCEPT
                !.families = families2,
                !.ctx_fonts = SetFonts(s.ctx_fonts, ev,
                                       FontDefinitions(font_data2, families2)),
                !.msg = FooterMsg(ev)]

\* The error is stored and the rest of the frame is still rendered.
OnReadErrorNoReturn(s, form, e, ev, supplied) ==
    ShowTables(ReadFailed(s, form, e), ev, supplied)

\* Err(e) => { self.err_msg = e.to_string(); return FontDefsUiMsg::None; }
OnReadError(s, form, e, ev, supplied) == ReadFailed(s, form, e)

\* The state after show(ui, font_defs, custom) in state s, the Ui reporting ev,
\* supplied saying whether custom is Some.
Show(s, ev, supplied) ==
    LET add_new1 == FormShown(s, ev)
        err_msg1 == HeaderClear(s.err_msg, ev)
        name_buf1 == IF add_new1 THEN TextAfter(ev, "name_edit", "", 0, s.name_buf)
                     ELSE s.name_buf
        path_buf1 == IF add_new1 THEN TextAfter(ev, "path_edit", "", 0, s.path_buf)
                     ELSE s.path_buf
        add == add_new1 /\ AddNewFont \in ev
        read == ReadFile(path_buf1)
    IN  IF add /\ ~read.ok
        THEN OnReadError(s, [add_new |-> add_new1, name_buf |-> name_buf1,
                             path_buf |-> path_buf1], read.err, ev, supplied)
        ELSE
        LET font_data1 == IF add THEN InsertFont(s.font_data, name_buf1, read.data)
                          ELSE s.font_data
            custom1 == IF add /\ supplied THEN Insert(s.custom, name_buf1, path_buf1)
                       ELSE s.custom
        IN  ShowTables([s EXCEPT !.add_new = IF add THEN FALSE ELSE add_new1,
                                 !.name_buf = IF add THEN "" ELSE name_buf1,
                                 !.path_buf = IF add THEN "" ELSE path_buf1,
                                 !.err_msg = IF add THEN "" ELSE err_msg1,
                                 !.font_data = font_data1,
                                 !.custom = custom1],
                       ev, supplied)

(***************************************************************************)
(* FontCfgWindow::show                                                     *)
(***************************************************************************)
\* The wrapper gives the inner editor no registry.
WindowShowWithoutCustom(s, visible, ev, supplied) ==
    IF visible THEN Show(s, ev, FALSE) ELSE [s EXCEPT !.msg = "None"]

\* FontCfgWindow::show: msg starts as None; the closure, which egui runs when
\* it lays out the window's contents (visible: the window is open and not
\* collapsed), stores the message of the inner show.
WindowShow(s, visible, ev, supplied) ==
    IF visible THEN Show(s, ev, supplied) ELSE [s EXCEPT !.msg = "None"]

(***************************************************************************)
(* load_custom_fonts                                                       *)
(***************************************************************************)
\* Identifiers and paths of the registries given to load_custom_fonts.
LoadKeys == {"a", "b", "c"}
LoadPaths == {"valid/path", "other/path", "missing/path"}

\* The orders in which `for (k, v) in custom` can visit the entries of the
\* registry: a HashMap iterates in an order its keys do not determine.
Orders(cu) ==
    {o \in [1..Cardinality(DOMAIN cu) -> DOMAIN cu] :
        \A i, j \in DOMAIN o : o[i] = o[j] => i = j}

RECURSIVE LoadFrom(_, _, _, _)
\* The loop from the i-th visited entry on: `?` returns the first read error,
\* a read file is inserted under the entry's identifier.
LoadFrom(cu, order, i, fd) ==
    IF i > Len(order) THEN [ok |-> TRUE, font_data |-> fd]
    ELSE LET k == order[i]
             read == ReadFile(cu[k])
         IN IF ~read.ok THEN [ok |-> FALSE, font_data |-> fd]
            ELSE LoadFrom(cu, order, i + 1, Insert(fd, k, read.data))

\* The loader undoes its insertions when a read fails.
LoadRollingBack(cu, order, fd) ==
    LET r == LoadFrom(cu, order, 1, fd)
    IN IF r.ok THEN r ELSE [ok |-> FALSE, font_data |-> fd]

\* load_custom_fonts(custom, font_data), the registry visited in this order.
LoadCustomFonts(cu, order, fd) == LoadFrom(cu, order, 1, fd)

(***************************************************************************)
(* The state machine.                                                      *)
(***************************************************************************)
\* The walkthrough has not begun and nothing has left it.
ScriptStart == [at |-> 0, on |-> TRUE]

\* No load_custom_fonts call has been made.
NotLoaded == [result |-> "NotCalled", order |-> <<>>, before |-> EmptyMap]

\* The font definitions the host starts with and has given to the context:
\* a preloaded "sans", and "emoji", loaded from the registry's emoji.ttf.
InitFonts ==
    FontDefinitions(("sans" :> SansBytes) @@ ("emoji" :> EmojiBytes),
                    ("Monospace" :> <<"sans", "emoji">>))

\* The host's registry of custom fonts from its last run.
InitCustom == ("emoji" :> "emoji.ttf")

Init ==
    /\ name_buf = ""
    /\ path_buf = ""
    /\ err_msg = ""
    /\ add_new = FALSE
    /\ font_data = InitFonts.font_data
    /\ families = InitFonts.families
    /\ custom = InitCustom
    /\ ctx_fonts = InitFonts
    /\ msg = "None"
    /\ calls = 0
    /\ last = [ev |-> {}, supplied |-> FALSE]
    /\ open = FALSE
    /\ load = NotLoaded
    /\ script = ScriptStart

\* One call of FontCfgUi::show by the host's render loop.
ShowCall ==
    /\ calls < MaxCalls
    /\ msg # "Panic"
    /\ \E ev \in Inputs(St), supplied \in BOOLEAN :
        \E t \in {Show(St, ev, supplied)} :
        /\ name_buf' = t.name_buf
        /\ path_buf' = t.path_buf
        /\ err_msg' = t.err_msg
        /\ add_new' = t.add_new
        /\ font_data' = t.font_data
        /\ families' = t.families
        /\ custom' = t.custom
        /\ ctx_fonts' = t.ctx_fonts
        /\ msg' = t.msg
        /\ last' = [ev |-> ev, supplied |-> supplied]
    /\ calls' = calls + 1
    /\ UNCHANGED <<open, load, script>>

\* Between calls the host, which owns font_defs, creates a family with an
\* empty fallback list.
HostCreateFamily ==
    /\ msg # "Panic"
    /\ \E f \in Families \ DOMAIN families :
        families' = Insert(families, f, <<>>)
    /\ UNCHANGED <<name_buf, path_buf, err_msg, add_new, font_data, custom,
                   ctx_fonts, msg, calls, last, open, load, script>>

Next == ShowCall \/ HostCreateFamily

Spec == Init /\ [][Next]_vars

(***************************************************************************)
(* The editor in its window.                                               *)
(***************************************************************************)
\* The host sets the public field open to show the window.
HostOpenWindow ==
    /\ ~open
    /\ msg # "Panic"
    /\ open' = TRUE
    /\ UNCHANGED <<name_buf, path_buf, err_msg, add_new, font_data, families,
                   custom, ctx_fonts, msg, calls, last, load, script>>

\* One call of FontCfgWindow::show.  The contents are laid out, and their
\* controls can be activated, if the window is open and not collapsed; the
\* close button of an open window clears the flag that .open(..) borrows.
\* The window handles its close button after its contents: a call whose
\* contents unwind never gets there and leaves the flag as it was.
WindowCall ==
    /\ calls < MaxCalls
    /\ msg # "Panic"
    /\ \E visible \in {open, FALSE}, close \in {FALSE, open}, supplied \in BOOLEAN :
        \E ev \in (IF visible THEN Inputs(St) ELSE {{}}) :
        \E t \in {WindowShow(St, visible, ev, supplied)} :
        /\ name_buf' = t.name_buf
        /\ path_buf' = t.path_buf
        /\ err_msg' = t.err_msg
        /\ add_new' = t.add_new
        /\ font_data' = t.font_data
        /\ families' = t.families
        /\ custom' = t.custom
        /\ ctx_fonts' = t.ctx_fonts
        /\ msg' = t.msg
        /\ last' = [ev |-> ev, supplied |-> supplied]
        /\ open' = IF t.msg = "Panic" THEN open ELSE (open /\ ~close)
    /\ calls' = calls + 1
    /\ UNCHANGED <<load, script>>

SpecWindow == Init /\ [][WindowCall \/ HostOpenWindow \/ HostCreateFamily]_vars

(***************************************************************************)
(* The host loading its registry at startup.                               *)
(***************************************************************************)
\* Registries over LoadKeys and LoadPaths.
Registries ==
    UNION {[keys -> LoadPaths] : keys \in SUBSET LoadKeys}

\* Before the load the host has a registry from its last run and a font data
\* table that is empty or already has an entry under "a".
InitLoader ==
    /\ name_buf = ""
    /\ path_buf = ""
    /\ err_msg = ""
    /\ add_new = FALSE
    /\ font_data \in {EmptyMap, ("a" :> SansBytes)}
    /\ families = InitFonts.families
    /\ custom \in Registries
    /\ ctx_fonts = InitFonts
    /\ msg = "None"
    /\ calls = 0
    /\ last = [ev |-> {}, supplied |-> FALSE]
    /\ open = FALSE
    /\ load = NotLoaded
    /\ script = ScriptStart

\* The host calls load_custom_fonts(&custom, &mut font_defs.font_data) once.
LoadCall ==
    /\ load.result = "NotCalled"
    /\ \E order \in Orders(custom) :
        \E r \in {LoadCustomFonts(custom, order, font_data)} :
        /\ font_data' = r.font_data
        /\ load' = [result |-> IF r.ok THEN "Ok" ELSE "Err", order |-> order,
                    before |-> font_data]
    /\ UNCHANGED <<name_buf, path_buf, err_msg, add_new, families, custom,
                   ctx_fonts, msg, calls, last, open, script>>

SpecLoader == InitLoader /\ [][LoadCall]_vars

TypeOK ==
    /\ name_buf \in Strings
    /\ path_buf \in Paths
    /\ err_msg \in {"", NotFound}
    /\ add_new \in BOOLEAN
    /\ DOMAIN font_data \subseteq Strings \cup {"emoji"}
    /\ DOMAIN families \subseteq Families
    /\ DOMAIN custom \subseteq Strings \cup {"emoji"}
    /\ msg \in {"None", "SaveRequest", "Panic"}
    /\ calls \in 0..MaxCalls
    /\ open \in BOOLEAN

(***************************************************************************)
(* A walkthrough from empty tables.                                        *)
(***************************************************************************)
\* The steps of the walkthrough: a show call with these controls activated,
\* or the host creating this family with an empty list.  Slot positions count
\* from 1: slot 0 of the walkthrough is position 1.
Scenario ==
    << [host |-> "", ev |-> {HeaderPlus}],
       [host |-> "", ev |-> {NameEdit("sans")}],
       [host |-> "", ev |-> {PathEdit("sans.ttf")}],
       [host |-> "", ev |-> {AddNewFont}],
       [host |-> "body", ev |-> {}],
       [host |-> "", ev |-> {FamilyPlus("body")}],
       [host |-> "", ev |-> {FamilyPlus("body")}],
       [host |-> "", ev |-> {SlotEdit("body", 1, "sans")}],
       [host |-> "", ev |-> {SlotMinus("body", 2)}] >>

\* A default editor over empty font definitions and an empty registry.
InitScenario ==
    /\ name_buf = ""
    /\ path_buf = ""
    /\ err_msg = ""
    /\ add_new = FALSE
    /\ font_data = EmptyMap
    /\ families = EmptyMap
    /\ custom = EmptyMap
    /\ ctx_fonts = FontDefinitions(EmptyMap, EmptyMap)
    /\ msg = "None"
    /\ calls = 0
    /\ last = [ev |-> {}, supplied |-> FALSE]
    /\ open = FALSE
    /\ load = NotLoaded
    /\ script = ScriptStart

\* The walkthrough can go on: it has steps left and none was left out.
OnScript == script.on /\ script.at < Len(Scenario) /\ msg # "Panic"

\* One call of show during the walkthrough: the walkthrough advances if the
\* call is its next step and is abandoned if it is not.
ScenarioCall ==
    /\ OnScript
    /\ \E ev \in Inputs(St), supplied \in BOOLEAN :
        \E t \in {Show(St, ev, supplied)} :
        /\ name_buf' = t.name_buf
        /\ path_buf' = t.path_buf
        /\ err_msg' = t.err_msg
        /\ add_new' = t.add_new
        /\ font_data' = t.font_data
        /\ families' = t.families
        /\ custom' = t.custom
        /\ ctx_fonts' = t.ctx_fonts
        /\ msg' = t.msg
        /\ last' = [ev |-> ev, supplied |-> supplied]
        /\ script' = [at |-> script.at + 1,
                      on |-> /\ Scenario[script.at + 1].host = ""
                             /\ Scenario[script.at + 1].ev = ev]
    /\ calls' = calls + 1
    /\ UNCHANGED <<open, load>>

\* The host creates a family with an empty list during the walkthrough.
ScenarioHost ==
    /\ OnScript
    /\ \E f \in Families \ DOMAIN families :
        /\ families' = Insert(families, f, <<>>)
        /\ script' = [at |-> script.at + 1,
                      on |-> Scenario[script.at + 1].host = f]
    /\ UNCHANGED <<name_buf, path_buf, err_msg, add_new, font_data, custom,
                   ctx_fonts, msg, calls, last, open, load>>

SpecScenario == InitScenario /\ [][ScenarioCall \/ ScenarioHost]_vars

(***************************************************************************)
(* Properties of show.  A step of ShowCall is a step that raises calls;    *)
(* last' holds the inputs of that call, the unprimed variables the state   *)
(* before it and the primed ones the state after it.                       *)
(***************************************************************************)
\* The step is one call of show.
IsCall == calls' = calls + 1

\* The identifier and the path in the sub-form's fields when 'Add new font'
\* is clicked in the call of this step.
NameAtAdd ==
    LET typed == {e \in last'.ev : e.kind = "name_edit"}
    IN IF typed = {} THEN name_buf ELSE (CHOOSE e \in typed : TRUE).text

PathAtAdd ==
    LET typed == {e \in last'.ev : e.kind = "path_edit"}
    IN IF typed = {} THEN path_buf ELSE (CHOOSE e \in typed : TRUE).text

\* The controls of ev that edit the font data, the families or the registry.
TableControls(ev) ==
    {e \in ev : e.kind \in {"add_new_font", "font_minus", "family_plus",
                            "family_minus", "slot_edit", "slot_minus"}}

\* The last call returned early from a failed read.
LastAddFailed == AddNewFont \in last.ev /\ err_msg # ""

\* C1 as stated: in a call where 'Add new font' is clicked with a readable
\* path, the font data afterwards maps the identifier typed (as it was at the
\* click) to the file's bytes, a supplied registry maps it to the path typed,
\* both buffers and the error message are empty and the sub-form is closed.
C1_AddAlwaysInsertsFont ==
    [][(IsCall /\ AddNewFont \in last'.ev /\ ReadFile(PathAtAdd).ok) =>
        /\ NameAtAdd \in DOMAIN font_data'
        /\ font_data'[NameAtAdd] = ReadFile(PathAtAdd).data
        /\ last'.supplied =>
            /\ NameAtAdd \in DOMAIN custom'
            /\ custom'[NameAtAdd] = PathAtAdd
        /\ name_buf' = ""
        /\ path_buf' = ""
        /\ err_msg' = ""
        /\ add_new' = FALSE]_vars

\* C1: in a call where 'Add new font' is clicked with a readable path, both
\* buffers and the error message are empty afterwards and the sub-form is
\* closed.  If the '-' of the added identifier's row is not clicked in that
\* call, the font data afterwards maps the identifier typed (as it was at the
\* click) to the file's bytes, replacing an earlier entry, and a supplied
\* registry maps it to the path typed.  If that '-' is clicked in the call,
\* the identifier is in the font data no more, nor in a supplied registry.
C1_AddInsertsFont ==
    [][(IsCall /\ AddNewFont \in last'.ev /\ ReadFile(PathAtAdd).ok) =>
        /\ FontMinus(NameAtAdd) \notin last'.ev =>
            /\ NameAtAdd \in DOMAIN font_data'
            /\ font_data'[NameAtAdd] = ReadFile(PathAtAdd).data
            /\ last'.supplied =>
                /\ NameAtAdd \in DOMAIN custom'
                /\ custom'[NameAtAdd] = PathAtAdd
        /\ FontMinus(NameAtAdd) \in last'.ev =>
            /\ NameAtAdd \notin DOMAIN font_data'
            /\ last'.supplied => NameAtAdd \notin DOMAIN custom'
        /\ name_buf' = ""
        /\ path_buf' = ""
        /\ err_msg' = ""
        /\ add_new' = FALSE]_vars

\* "sans", preloaded by the host, now holds the bytes of sans.ttf, and the
\* registry records the path: an add with the registry supplied has overwritten it.
C1_Witness ==
    /\ AddNewFont \in last.ev
    /\ last.supplied
    /\ "sans" \in DOMAIN font_data
    /\ font_data["sans"] = FileBytes
    /\ "sans" \in DOMAIN custom
    /\ custom["sans"] = "sans.ttf"
    /\ name_buf = "" /\ path_buf = "" /\ err_msg = "" /\ ~add_new

\* C2: in a call where 'Add new font' is clicked with an unreadable path, the
\* font data, the families and the registry are as before the call, the two
\* buffers keep what they held at the click, the error message is the non-empty
\* description of the failure, and the sub-form stays open.
C2_FailedAddChangesNothing ==
    [][(IsCall /\ AddNewFont \in last'.ev /\ ~ReadFile(PathAtAdd).ok) =>
        /\ font_data' = font_data
        /\ families' = families
        /\ custom' = custom
        /\ name_buf' = NameAtAdd
        /\ path_buf' = PathAtAdd
        /\ err_msg' = ReadFile(PathAtAdd).err
        /\ err_msg' # ""
        /\ add_new' = TRUE]_vars

\* A failed add of "sans" from missing.ttf: the message is shown, the sub-form
\* is open and still holds both texts.
C2_Witness ==
    /\ AddNewFont \in last.ev
    /\ err_msg = NotFound
    /\ add_new
    /\ name_buf = "sans"
    /\ path_buf = "missing.ttf"

\* C3: no show call fails, whatever controls are activated in it: a family
\* marked for append is still in the families when the deferred append looks
\* it up, so show always returns a message.
C3_ShowNeverFails == msg \in {"None", "SaveRequest"}

\* C4: clicking the '-' of identifier I removes I from the font data and, when
\* the registry is supplied, from the registry; every other entry of both is
\* unchanged and no fallback list changes, also those that still name I.
C4_FontMinusRemovesOnlyThatFont ==
    [][IsCall =>
        \A I \in DOMAIN font_data :
            TableControls(last'.ev) = {FontMinus(I)} =>
                /\ DOMAIN font_data' = (DOMAIN font_data) \ {I}
                /\ \A k \in DOMAIN font_data' : font_data'[k] = font_data[k]
                /\ DOMAIN custom' = IF last'.supplied THEN (DOMAIN custom) \ {I}
                                    ELSE DOMAIN custom
                /\ \A k \in DOMAIN custom' : custom'[k] = custom[k]
                /\ families' = families]_vars

\* "emoji" was removed with the registry supplied: it is gone from both maps,
\* "sans" is still there, and Monospace still lists "emoji".
C4_Witness ==
    /\ last.ev = {FontMinus("emoji")}
    /\ last.supplied
    /\ "emoji" \notin DOMAIN font_data
    /\ "emoji" \notin DOMAIN custom
    /\ "sans" \in DOMAIN font_data
    /\ "Monospace" \in DOMAIN families
    /\ families["Monospace"] = <<"sans", "emoji">>

C6_SlotMinusRemovesThatSlot ==
    [][IsCall =>
        \A F \in DOMAIN families :
            \A p \in 1..Len(families[F]) :
                TableControls(last'.ev) = {SlotMinus(F, p)} =>
                    /\ DOMAIN families' = DOMAIN families
                    /\ Len(families'[F]) = Len(families[F]) - 1
                    /\ families'[F] = SubSeq(families[F], 1, p - 1)
                                      \o SubSeq(families[F], p + 1, Len(families[F]))
                    /\ \A G \in (DOMAIN families) \ {F} :
                        families'[G] = families[G]]_vars

\* The first of the three slots "sans", "emoji", "" was removed.
C6_Witness ==
    /\ last.ev = {SlotMinus("Monospace", 1)}
    /\ "Monospace" \in DOMAIN families
    /\ families["Monospace"] = <<"emoji", "">>

\* C7: a call in which Save is the only control activated changes neither the
\* font data, the families, the registry nor the context's fonts, and returns
\* SaveRequest, each time it is made.
C7_SaveChangesNothing ==
    [][(IsCall /\ last'.ev = {Save}) =>
        /\ font_data' = font_data
        /\ families' = families
        /\ custom' = custom
        /\ ctx_fonts' = ctx_fonts
        /\ msg' = "SaveRequest"]_vars

\* The second of two calls, each returning SaveRequest with the tables as at the start.
C7_Witness ==
    /\ calls = 2
    /\ last.ev = {Save}
    /\ msg = "SaveRequest"
    /\ FontDefinitions(font_data, families) = InitFonts
    /\ custom = InitCustom
    /\ ctx_fonts = InitFonts

\* C8: every call returns None or SaveRequest: SaveRequest when Save is
\* clicked in it, None when it is not, whatever else is activated.
C8_ReturnsSaveIffClicked ==
    calls > 0 =>
        msg = IF Save \in last.ev /\ ~LastAddFailed THEN "SaveRequest" ELSE "None"

\* C9: clicking Apply gives the context a copy of the font definitions as the
\* edits of the same call left them; and Apply is idempotent: clicked again
\* with no edit since, it leaves the context as it is.
C9_ApplyCopiesDefinitions ==
    [][IsCall =>
        /\ (Apply \in last'.ev /\ msg' # "Panic"
                /\ ~(AddNewFont \in last'.ev /\ err_msg' # "")) =>
            ctx_fonts' = FontDefinitions(font_data', families')
        /\ (last'.ev = {Apply} /\ ctx_fonts = FontDefinitions(font_data, families)) =>
            ctx_fonts' = ctx_fonts]_vars

\* Apply was clicked alone in the second call, the context already holding
\* the definitions, which differ from those the host started with.
C9_Witness ==
    /\ calls = 2
    /\ last.ev = {Apply}
    /\ ctx_fonts = FontDefinitions(font_data, families)
    /\ ctx_fonts # InitFonts

\* C10: the context's fonts change only in a call in which Apply is clicked;
\* after edits without Apply the context is as the last Apply, or the start,
\* left it.
C10_OnlyApplySetsFonts ==
    [][ctx_fonts' # ctx_fonts => (IsCall /\ Apply \in last'.ev)]_vars

\* An Apply in the first call, an edit without Apply in the second: the
\* context holds neither the initial nor the current definitions.
C10_Witness ==
    /\ calls = 2
    /\ Apply \notin last.ev
    /\ ctx_fonts # InitFonts
    /\ ctx_fonts # FontDefinitions(font_data, families)

\* The call of this step returned early from a failed read.
AddFails == AddNewFont \in last'.ev /\ ~ReadFile(PathAtAdd).ok

\* The slot controls the editor renders for family F in state s.
SlotControls(s, F) ==
    {e \in Buttons(s, {}) \cup TextEdits(s) :
        e.kind \in {"slot_edit", "slot_minus"} /\ e.key = F}

\* C12: clicking the '-' of family F removes F with its whole list in that
\* call and, when it is the only table control clicked, leaves every other
\* family and list as it was; a family the host inserts afterwards under the
\* same name with an empty list is rendered with no slot: nothing of the old
\* list is kept by the editor.
C12_FamilyMinusRemovesFamily ==
    [][/\ IsCall =>
            \A F \in DOMAIN families :
                /\ (FamilyMinus(F) \in last'.ev /\ ~AddFails) =>
                        F \notin DOMAIN families'
                /\ TableControls(last'.ev) = {FamilyMinus(F)} =>
                        /\ DOMAIN families' = (DOMAIN families) \ {F}
                        /\ \A G \in DOMAIN families' : families'[G] = families[G]
       /\ ~IsCall =>
            \A F \in (DOMAIN families') \ DOMAIN families :
                /\ families'[F] = <<>>
                /\ SlotControls(St', F) = {}]_vars

\* Monospace, removed with its two slots by the last call, has since been
\* inserted again by the host and has no slot.
C12_Witness ==
    /\ last.ev = {FamilyMinus("Monospace")}
    /\ "Monospace" \in DOMAIN families
    /\ families["Monospace"] = <<>>
    /\ SlotControls(St, "Monospace") = {}

\* The call of this step ran a successful add.
AddSucceeds == AddNewFont \in last'.ev /\ ReadFile(PathAtAdd).ok

\* C15: a non-empty error message is still there, non-empty, after every show
\* call in which neither the header '+' is clicked nor an add succeeds; a call
\* without 'Add new font' (any other control, or none) leaves its text as it
\* is, and so does what the host does between calls.
C15_ErrorStaysUntilCleared ==
    [][err_msg # "" =>
        /\ (IsCall /\ HeaderPlus \notin last'.ev /\ ~AddSucceeds) =>
            /\ err_msg' # ""
            /\ AddNewFont \notin last'.ev => err_msg' = err_msg
        /\ ~IsCall => err_msg' = err_msg]_vars

\* The message of the first call's failed add is still shown after a second
\* call in which Save and the '-' of a font were clicked.
C15_Witness ==
    /\ calls = 2
    /\ last.ev = {FontMinus("sans"), Save}
    /\ err_msg = NotFound
    /\ "sans" \notin DOMAIN font_data

\* The call of this step activates no control of the add sub-form.
NoFormInput ==
    \A e \in last'.ev : e.kind \notin {"name_edit", "path_edit", "add_new_font"}

\* C16 as stated: a call in which the header '+' is clicked, and nothing is
\* typed or added, ends with the identifier buffer, the path buffer and the
\* error message empty and the sub-form open.
C16_HeaderPlusClearsAll ==
    [][(IsCall /\ HeaderPlus \in last'.ev /\ NoFormInput) =>
        /\ name_buf' = ""
        /\ path_buf' = ""
        /\ err_msg' = ""
        /\ add_new' = TRUE]_vars

\* C16: a call in which the header '+' is clicked, and nothing is typed or
\* added, ends with the sub-form open and the error message empty; the two
\* buffers are not touched: they are empty afterwards if the sub-form was
\* closed before the call, and keep what was typed if it was already open.
C16_HeaderPlusOpensAndClearsError ==
    [][(IsCall /\ HeaderPlus \in last'.ev /\ NoFormInput) =>
        /\ add_new' = TRUE
        /\ err_msg' = ""
        /\ name_buf' = name_buf
        /\ path_buf' = path_buf
        /\ ~add_new => (name_buf' = "" /\ path_buf' = "")]_vars

\* The header '+' was clicked on an open sub-form that held "sans": the
\* sub-form is open, the error empty, the text still there.
C16_Witness ==
    /\ calls = 2
    /\ last.ev = {HeaderPlus}
    /\ add_new
    /\ err_msg = ""
    /\ name_buf = "sans"

\* C17: whenever the add sub-form is closed, the identifier buffer, the path
\* buffer and the error message are empty.
C17_ClosedFormIsEmpty ==
    ~add_new => (name_buf = "" /\ path_buf = "" /\ err_msg = "")

\* The sub-form, opened and filled in, was closed by a successful add.
C17_Witness ==
    /\ ~add_new
    /\ last.ev = {NameEdit("sans"), AddNewFont}
    /\ "sans" \in DOMAIN font_data
    /\ font_data["sans"] = FileBytes
    /\ name_buf = ""
    /\ path_buf = ""
    /\ err_msg = ""

\* C18: a show call that is given the registry keeps every registry key a font
\* data key if that was so before the call, and so does the host between
\* calls; a call that is not given the registry and in which the '-' of a
\* registered font is the only table control clicked leaves the font's
\* registry entry without its font data.
C18_RegistryWithinFontData ==
    [][/\ (DOMAIN custom \subseteq DOMAIN font_data /\ (IsCall => last'.supplied)) =>
            DOMAIN custom' \subseteq DOMAIN font_data'
       /\ (IsCall /\ ~last'.supplied) =>
            \A I \in DOMAIN custom \cap DOMAIN font_data :
                TableControls(last'.ev) = {FontMinus(I)} =>
                    /\ I \in DOMAIN custom'
                    /\ custom'[I] = custom[I]
                    /\ I \notin DOMAIN font_data']_vars

\* "emoji" was removed in a call that was not given the registry: the
\* registry still names it, the font data does not.
C18_Witness ==
    /\ ~last.supplied
    /\ last.ev = {FontMinus("emoji")}
    /\ "emoji" \in DOMAIN custom
    /\ "emoji" \notin DOMAIN font_data

RECURSIVE SlotsOf(_, _)
\* The number of slots in the lists of the families in keys.
SlotsOf(fams, keys) ==
    IF keys = {} THEN 0
    ELSE LET f == CHOOSE g \in keys : TRUE
         IN Len(fams[f]) + SlotsOf(fams, keys \ {f})

\* The number of slots in all fallback lists.
TotalSlots(fams) == SlotsOf(fams, DOMAIN fams)

\* C19: a show call creates no family, adds no font data entry other than the
\* identifier of a successful add, and raises the number of slots in all
\* lists by at most one, also when the '+' of two families is clicked in it.
C19_CallAddsAtMostOne ==
    [][IsCall =>
        /\ DOMAIN families' \subseteq DOMAIN families
        /\ (DOMAIN font_data') \ (DOMAIN font_data)
                \subseteq (IF AddSucceeds THEN {NameAtAdd} ELSE {})
        /\ TotalSlots(families') <= TotalSlots(families) + 1]_vars

\* The '+' of Monospace and the '+' of body were clicked in one call: only
\* body, the later in key order, has a new slot.
C19_Witness ==
    /\ last.ev = {FamilyPlus("Monospace"), FamilyPlus("body")}
    /\ DOMAIN families = {"Monospace", "body"}
    /\ families["Monospace"] = <<"sans", "emoji">>
    /\ families["body"] = <<"">>

\* C20: a call in which the read of 'Add new font' fails returns at once: the
\* font data, the families, the registry and the context's fonts are as
\* before it, whatever control after the sub-form is clicked in it, and it
\* returns None also when Save is clicked.
C20_FailedAddEndsCall ==
    [][(IsCall /\ AddFails) =>
        /\ font_data' = font_data
        /\ families' = families
        /\ custom' = custom
        /\ ctx_fonts' = ctx_fonts
        /\ msg' = "None"]_vars

\* Save was clicked in the call whose add failed: the call returned None.
C20_Witness ==
    /\ last.ev = {AddNewFont, Save}
    /\ err_msg = NotFound
    /\ add_new
    /\ msg = "None"

(***************************************************************************)
(* Properties of load_custom_fonts (under SpecLoader).                     *)
(***************************************************************************)
\* The position in the visiting order of the first entry whose file cannot be
\* read; one past the end if every file can be read.
FirstUnreadable ==
    LET n == Len(load.order)
        bad == {i \in 1..n : ~ReadFile(custom[load.order[i]]).ok}
    IN IF bad = {} THEN n + 1 ELSE CHOOSE i \in bad : \A j \in bad : i <= j

\* The registry of the example: "a" readable, "b" not.
ExampleRegistry == ("a" :> "valid/path") @@ ("b" :> "missing/path")

\* C11 as stated: loading the registry {"a": readable, "b": unreadable} reports
\* failure and leaves "a" in the font data table with its file's bytes.
C11_FailedLoadKeepsA ==
    (load.result # "NotCalled" /\ custom = ExampleRegistry)
    => /\ load.result = "Err"
       /\ "a" \in DOMAIN font_data
       /\ font_data["a"] = ValidBytes

\* C11: load_custom_fonts stops at the first entry, in the order the registry
\* is visited, whose file cannot be read: it reports failure exactly if there
\* is one, every entry visited before it is in the table with its file's
\* bytes, and every other identifier is as it was before the call; so "a" of
\* the example is loaded only if it is visited before "b".
C11_LoadStopsAtFirstUnreadable ==
    load.result # "NotCalled"
    => LET p == FirstUnreadable
           loaded == {load.order[i] : i \in 1..(p - 1)}
       IN /\ load.result = (IF p > Len(load.order) THEN "Ok" ELSE "Err")
          /\ DOMAIN font_data = DOMAIN load.before \cup loaded
          /\ \A k \in DOMAIN font_data :
                font_data[k] = IF k \in loaded THEN ReadFile(custom[k]).data
                               ELSE load.before[k]

\* The example registry visited "a" first: the load failed and "a" is loaded.
C11_Witness ==
    /\ load.result = "Err"
    /\ custom = ExampleRegistry
    /\ load.order = <<"a", "b">>
    /\ load.before = EmptyMap
    /\ font_data = ("a" :> ValidBytes)

(***************************************************************************)
(* The walkthrough (under SpecScenario).                                   *)
(***************************************************************************)
\* The fallback list of body after each step of the walkthrough from the
\* host's creation of the family on.
BodyAfter ==
    << <<>>, <<"">>, <<"", "">>, <<"sans", "">>, <<"sans">> >>

\* C13: from empty tables, adding "sans" from a readable path leaves the font
\* data {"sans": bytes}; after the host creates body, two calls with body's
\* '+' leave body = ["", ""], editing the first slot to "sans" leaves
\* ["sans", ""], only that slot changed, and the '-' of the second slot leaves
\* ["sans"]; the font data is not touched by the family steps.
C13_WalkthroughStates ==
    script.on =>
        /\ msg = "None"
        /\ font_data = IF script.at < 4 THEN EmptyMap ELSE ("sans" :> FileBytes)
        /\ families = IF script.at < 5 THEN EmptyMap
                      ELSE ("body" :> BodyAfter[script.at - 4])

\* The walkthrough was followed to its end.
C13_Witness ==
    /\ script.on
    /\ script.at = Len(Scenario)
    /\ last.ev = {SlotMinus("body", 2)}
    /\ font_data = ("sans" :> FileBytes)
    /\ families = ("body" :> <<"sans">>)

(***************************************************************************)
(* The window wrapper (under SpecWindow).                                  *)
(***************************************************************************)
\* C14: a call of FontCfgWindow::show on an open window leaves the editor, the
\* font definitions, the registry and the context exactly as a call of
\* FontCfgUi::show with the same inputs leaves them, and returns what that
\* call returns; besides that the call changes only the open flag.
C14_WindowDelegates ==
    [][(IsCall /\ open) =>
        /\ St' = Show(St, last'.ev, last'.supplied)
        /\ UNCHANGED <<load, script>>]_vars

\* In an open window the '-' of "emoji" and Save were clicked in one call,
\* the registry supplied: the font is gone from both maps and the call
\* returned SaveRequest.
C14_Witness ==
    /\ open
    /\ last.ev = {FontMinus("emoji"), Save}
    /\ last.supplied
    /\ "emoji" \notin DOMAIN font_data
    /\ "emoji" \notin DOMAIN custom
    /\ msg = "SaveRequest"

====
